---- MODULE Spec2Model ----
(***************************************************************************)
(* Model of quant_engine.py: the all-in/all-out Portfolio, its update      *)
(* step, the moving-average crossover's signal series, and the             *)
(* Backtester.run driver that feeds the portfolio.                         *)
(*                                                                         *)
(* Python floats are IEEE-754 binary floating point numbers.  The model    *)
(* keeps the format's structure (a significand of Precision bits, a        *)
(* bounded exponent range with subnormals, round-to-nearest-even,          *)
(* overflow to infinity, underflow to zero, NaN) at a reduced width so     *)
(* that the values are enumerable.  A finite value is the integer number   *)
(* of smallest-subnormal units it holds; 1.0 is One units.  The sign of    *)
(* zero is not tracked (-0.0 == 0.0 in every comparison the code makes).   *)
(***************************************************************************)
EXTENDS Integers, Sequences, FiniteSets, TLC

\* ---------------------------------------------------------------- bounds
\* Bits of the significand (53 in binary64).
Precision == 3
\* Largest exponent step: finite magnitudes are m * 2^e, m < 2^Precision, e <= EMax.
EMax == 6
\* Direct Portfolio.update calls made by a caller in one behaviour.
MaxCalls == 3
\* Backtester.run calls in one behaviour.
MaxRuns == 2
\* Bars fetched over all the runs of one behaviour.
MaxBars == 4

\* ------------------------------------------------------- float arithmetic
RECURSIVE Pow2(_)
Pow2(n) == IF n = 0 THEN 1 ELSE 2 * Pow2(n - 1)

\* Units of 1.0: the middle of the exponent range, as in binary64.
One == Pow2((EMax + Precision - 1) \div 2)
MaxFinite == (Pow2(Precision) - 1) * Pow2(EMax)

Fin(k) == [cls |-> "fin", v |-> k]
PInf == [cls |-> "inf", v |-> 1]
NInf == [cls |-> "inf", v |-> -1]
NaN == [cls |-> "nan", v |-> 0]
Zero == Fin(0)

IsNaN(a) == a.cls = "nan"
IsInf(a) == a.cls = "inf"
IsFin(a) == a.cls = "fin"
Sign(a) == IF a.v > 0 THEN 1 ELSE IF a.v < 0 THEN -1 ELSE 0
Abs(n) == IF n < 0 THEN -n ELSE n
Inf(s) == IF s < 0 THEN NInf ELSE PInf

\* The spacing of representable values around the magnitude q (units).
RECURSIVE Spacing(_, _)
Spacing(q, s) == IF q \div s < Pow2(Precision) THEN s ELSE Spacing(q, 2 * s)

\* Round the non-negative rational n / d (units) to the nearest representable
\* magnitude, ties to the even significand; the result may exceed MaxFinite.
RoundMag(n, d) ==
    LET s == Spacing(n \div d, 1)
        m == n \div (d * s)
        rem == n - m * d * s
        up == \/ 2 * rem > d * s
              \/ (2 * rem = d * s /\ m % 2 = 1)
    IN  (IF up THEN m + 1 ELSE m) * s

\* Round the rational n / d (d > 0) to a float: overflow gives an infinity.
Round(n, d) ==
    LET k == RoundMag(Abs(n), d)
    IN  IF k > MaxFinite THEN Inf(n) ELSE Fin(IF n < 0 THEN -k ELSE k)

\* a * b
Mul(a, b) ==
    IF IsNaN(a) \/ IsNaN(b) THEN NaN
    ELSE IF IsInf(a) \/ IsInf(b)
         THEN IF Sign(a) * Sign(b) = 0 THEN NaN ELSE Inf(Sign(a) * Sign(b))
    ELSE Round(a.v * b.v, One)

\* a + b
Add(a, b) ==
    IF IsNaN(a) \/ IsNaN(b) THEN NaN
    ELSE IF IsInf(a) /\ IsInf(b) THEN (IF a = b THEN a ELSE NaN)
    ELSE IF IsInf(a) THEN a
    ELSE IF IsInf(b) THEN b
    ELSE Round(a.v + b.v, 1)

\* a / b for b # 0, and for b = 0 when an operand is a numpy float64
\* (division by zero then yields an infinity or NaN instead of raising).
Div(a, b) ==
    IF IsNaN(a) \/ IsNaN(b) THEN NaN
    ELSE IF IsInf(a) THEN (IF IsInf(b) THEN NaN
                           ELSE Inf(Sign(a) * (IF Sign(b) < 0 THEN -1 ELSE 1)))
    ELSE IF IsInf(b) THEN Zero
    ELSE IF b.v = 0 THEN (IF a.v = 0 THEN NaN ELSE Inf(Sign(a)))
    ELSE Round(Sign(b) * a.v * One, Abs(b.v))

\* a == b and a > b on floats: every comparison with NaN is false.
FEq(a, b) == ~IsNaN(a) /\ ~IsNaN(b) /\ a = b
Key(a) == IF IsInf(a) THEN a.v * (MaxFinite + 1) ELSE a.v
FGt(a, b) == ~IsNaN(a) /\ ~IsNaN(b) /\ Key(a) > Key(b)

\* ------------------------------------------------------------- inputs
\* Prices a caller or a data provider can hand to the simulator: negative,
\* zero, the smallest subnormal, ordinary values and the largest finite value.
PriceSet == {Fin(-One), Zero, Fin(1), Fin(One), Fin(3 * One), Fin(5 * One), Fin(MaxFinite)}
\* Trade signals: +1 entry, -1 exit, 0 hold.
SignalSet == {-1, 0, 1}
\* Values Portfolio(initial_cash) is constructed with: negative, zero, the
\* smallest positive float and ordinary amounts.
InitialCashSet == {Fin(-One), Zero, Fin(1), Fin(One), Fin(7 * One)}
\* Closes a data provider returns: ordinary prices and a zero quote.
RunPriceSet == {Zero, Fin(One), Fin(3 * One)}
\* (short_window, long_window) arguments callers construct the strategy with.
WindowArgs == {<<1, 2>>, <<2, 3>>, <<2, 2>>, <<3, 2>>}

\* Variant of the constructor's check that lets equal windows through.
window_check_allows_equal(short, long) == ~(short > long)

\* MovingAverageCrossStrategy.__init__: the arguments pass unless
\* short_window >= long_window.
window_check(short, long) == ~(short >= long)

\* (short_window, long_window) pairs accepted by the strategy's constructor.
WindowSet == {w \in WindowArgs : window_check(w[1], w[2])}
\* What pc holds when the constructor raised: no strategy, no Backtester.
InvalidWindows == "ValueError: short_window must be < long_window"

\* -------------------------------------------------------------- state
VARIABLES
    initial_cash,   \* Portfolio.initial_cash
    cash,           \* Portfolio.cash
    position,       \* Portfolio.position (units held)
    history,        \* Portfolio.history (equity curve)
    short_window,   \* MovingAverageCrossStrategy.short_window
    long_window,    \* MovingAverageCrossStrategy.long_window
    pc,             \* where Backtester.run stands: "idle" when no run is active
    prices,         \* run: the Close column of the fetched frame, bar 1..n
    trades,         \* run: the series generate_signals returned
    bar,            \* run: number of bars the loop has consumed
    run_log,        \* outcome of every run so far, in call order
    call,           \* arguments and outcome of the most recent update call
    prev,           \* the update call before that
    ncalls          \* number of update calls made so far

portfolio == <<initial_cash, cash, position, history>>
strategy == <<short_window, long_window>>
running == <<pc, prices, trades, bar, run_log>>
vars == <<portfolio, strategy, running, call, prev, ncalls>>

NoCall == [price |-> Zero, trade_signal |-> 0, outcome |-> "none"]

\* Portfolio.__init__, MovingAverageCrossStrategy.__init__ and, when that
\* did not raise, Backtester.__init__: no run and no update has happened.
\* When the strategy's constructor raised, short_window and long_window hold
\* the rejected arguments (the object's fields were never assigned).
Init ==
    /\ initial_cash \in InitialCashSet
    /\ cash = initial_cash
    /\ position = Zero
    /\ history = <<>>
    /\ \E w \in WindowArgs :
          /\ short_window = w[1]
          /\ long_window = w[2]
          /\ pc = IF w \in WindowSet THEN "idle" ELSE InvalidWindows
    /\ prices = <<>>
    /\ trades = <<>>
    /\ bar = 0
    /\ run_log = <<>>
    /\ call = NoCall
    /\ prev = NoCall
    /\ ncalls = 0

\* Faulty variants of the trading branches and of the valuation: each claim
\* is shown to reject one of them.
\* Entry that leaves the cash in place.
TradedKeepsCash(c, pos, price, trade_signal) ==
    IF trade_signal = 1 /\ FEq(pos, Zero)
    THEN [cash |-> c, position |-> Div(c, price)]
    ELSE IF trade_signal = -1 /\ FGt(pos, Zero)
    THEN [cash |-> Mul(pos, price), position |-> Zero]
    ELSE [cash |-> c, position |-> pos]

\* Exit that also fires while flat (>= instead of >).
TradedSellsWhenFlat(c, pos, price, trade_signal) ==
    IF trade_signal = 1 /\ FEq(pos, Zero)
    THEN [cash |-> Zero, position |-> Div(c, price)]
    ELSE IF trade_signal = -1 /\ (FGt(pos, Zero) \/ FEq(pos, Zero))
    THEN [cash |-> Mul(pos, price), position |-> Zero]
    ELSE [cash |-> c, position |-> pos]

\* Liquidation on every signal that is not an entry.
TradedSellsOnHold(c, pos, price, trade_signal) ==
    IF trade_signal = 1 /\ FEq(pos, Zero)
    THEN [cash |-> Zero, position |-> Div(c, price)]
    ELSE IF trade_signal # 1 /\ FGt(pos, Zero)
    THEN [cash |-> Mul(pos, price), position |-> Zero]
    ELSE [cash |-> c, position |-> pos]

\* Entry without the flat check (pyramiding).
TradedPyramids(c, pos, price, trade_signal) ==
    IF trade_signal = 1
    THEN [cash |-> Zero, position |-> Div(c, price)]
    ELSE IF trade_signal = -1 /\ FGt(pos, Zero)
    THEN [cash |-> Mul(pos, price), position |-> Zero]
    ELSE [cash |-> c, position |-> pos]

\* Entry that truncates the units bought to whole units of 1.0.
TradedWholeUnits(c, pos, price, trade_signal) ==
    IF trade_signal = 1 /\ FEq(pos, Zero)
    THEN [cash |-> Zero,
          position |-> LET u == Div(c, price)
                       IN  IF IsFin(u) THEN Fin(Sign(u) * ((Abs(u.v) \div One) * One)) ELSE u]
    ELSE IF trade_signal = -1 /\ FGt(pos, Zero)
    THEN [cash |-> Mul(pos, price), position |-> Zero]
    ELSE [cash |-> c, position |-> pos]

\* Valuation that forgets to price the units.
valueUnpriced(c, pos, price) == Add(c, pos)

\* Portfolio.value
value(c, pos, price) == Add(c, Mul(pos, price))

\* State after the branches of Portfolio.update, before mark-to-market.
Traded(c, pos, price, trade_signal) ==
    IF trade_signal = 1 /\ FEq(pos, Zero)
    THEN [cash |-> Zero, position |-> Div(c, price)]
    ELSE IF trade_signal = -1 /\ FGt(pos, Zero)
    THEN [cash |-> Mul(pos, price), position |-> Zero]
    ELSE [cash |-> c, position |-> pos]

\* self.cash / price raises ZeroDivisionError when both operands are Python
\* floats and price == 0.
CanRaise(pos, price, trade_signal) ==
    trade_signal = 1 /\ FEq(pos, Zero) /\ FEq(price, Zero)

\* Portfolio.update(price, trade_signal).  With price == 0 on the entry
\* branch the division raises for Python floats and yields inf or nan when
\* an operand is a numpy float64 (as the rows of a DataFrame are): both
\* outcomes are possible.
update(price, trade_signal) ==
    /\ ncalls' = ncalls + 1
    /\ prev' = call
    /\ \/ /\ CanRaise(position, price, trade_signal)
          /\ call' = [price |-> price, trade_signal |-> trade_signal,
                      outcome |-> "ZeroDivisionError"]
          /\ UNCHANGED <<cash, position, history>>
       \/ /\ LET t == Traded(cash, position, price, trade_signal)
             IN  /\ cash' = t.cash
                 /\ position' = t.position
                 /\ history' = Append(history, value(t.cash, t.position, price))
          /\ call' = [price |-> price, trade_signal |-> trade_signal,
                      outcome |-> "returned"]
    /\ UNCHANGED initial_cash

\* A caller invokes Portfolio.update directly.
CallUpdate ==
    /\ pc = "idle"
    /\ ncalls < MaxCalls
    /\ \E price \in PriceSet, trade_signal \in SignalSet :
          update(price, trade_signal)
    /\ UNCHANGED <<strategy, running>>

\* ------------------------------------------------------ signal generation
\* Sum of close[a..b], accumulated left to right.
RECURSIVE WindowSum(_, _, _)
WindowSum(close, a, b) ==
    IF a > b THEN Zero ELSE Add(WindowSum(close, a, b - 1), close[b])

\* Variant of the rolling mean that reads a missing average as zero.
rolling_mean_zero_filled(close, window, t) ==
    IF t < window THEN Zero
    ELSE Div(WindowSum(close, t - window + 1, t), Round(window * One, 1))

\* data["Close"].rolling(window).mean() at bar t: NaN until window bars exist.
\* (pandas accumulates the window sum incrementally; the sum is modelled as
\* a left-to-right float sum of the window.)
rolling_mean(close, window, t) ==
    IF t < window THEN NaN
    ELSE Div(WindowSum(close, t - window + 1, t), Round(window * One, 1))

\* Variant of the comparison that counts equal averages as a long position.
signal_position_or_equal(close, short, long, t) ==
    LET short_ma == rolling_mean(close, short, t)
        long_ma == rolling_mean(close, long, t)
    IN  IF FGt(short_ma, long_ma) \/ FEq(short_ma, long_ma) THEN 1 ELSE 0

\* position = (short_ma > long_ma).astype(int) at bar t
signal_position(close, short, long, t) ==
    IF FGt(rolling_mean(close, short, t), rolling_mean(close, long, t)) THEN 1 ELSE 0

\* A missing value of an integer series, and a present one.
NA == [isna |-> TRUE, val |-> 0]
Val(x) == [isna |-> FALSE, val |-> x]

\* Series.diff(): the first element has no predecessor and is missing.
diff(series) ==
    [t \in 1..Len(series) |-> IF t = 1 THEN NA ELSE Val(series[t] - series[t - 1])]

\* Series.fillna(value)
fillna(series, fill) ==
    [t \in 1..Len(series) |-> IF series[t].isna THEN fill ELSE series[t].val]

\* Variant of generate_signals that returns the positions, not their changes.
generate_signals_positions(close, short, long) ==
    [t \in 1..Len(close) |-> signal_position(close, short, long, t)]

\* MovingAverageCrossStrategy.generate_signals
generate_signals(close, short, long) ==
    LET position_series == [t \in 1..Len(close) |-> signal_position(close, short, long, t)]
    IN  fillna(diff(position_series), 0)

\* ------------------------------------------------------------ backtester
Min(a, b) == IF a < b THEN a ELSE b

\* The frame's index: bar timestamps, strictly increasing.
Index(close) == [t \in 1..Len(close) |-> t]

\* Variant of the lookup that reads a missing timestamp as Enter.
trades_get_defaults_to_enter(series, time) ==
    IF time \in DOMAIN series THEN series[time] ELSE 1

\* trades.get(time, 0)
trades_get(series, time) == IF time \in DOMAIN series THEN series[time] ELSE 0

\* prices.index[: len(self.portfolio.history)]
EquityIndex(close, hist) == SubSeq(Index(close), 1, Min(Len(hist), Len(close)))

\* pd.Series(values, index=index): the lengths must agree.
SeriesFits(values, index) == Len(values) = Len(index)
Series(values, index) == [k \in 1..Len(index) |-> <<index[k], values[k]>>]

Logged(series, status, equity) ==
    Append(run_log, [prices |-> series, status |-> status, equity |-> equity])

\* Bars the loops of all runs have consumed so far: one update call each.
BarsUsed == ncalls

\* run, line 121: YahooDataProvider.fetch returns a non-empty frame.
run_fetch ==
    /\ pc = "idle"
    /\ Len(run_log) < MaxRuns
    /\ \E n \in 1..(MaxBars - BarsUsed) :
          \E series \in [1..n -> RunPriceSet] :
              prices' = series
    /\ pc' = "signals"
    /\ UNCHANGED <<portfolio, strategy, trades, bar, run_log, call, prev, ncalls>>

\* Variant of fetch that hands an empty frame back to run instead of raising.
run_fetch_empty_returns_frame ==
    /\ pc = "idle"
    /\ Len(run_log) < MaxRuns
    /\ prices' = <<>>
    /\ pc' = "signals"
    /\ UNCHANGED <<portfolio, strategy, trades, bar, run_log, call, prev, ncalls>>

\* run, line 121: fetch finds no data and raises; run propagates the error.
run_fetch_empty ==
    /\ pc = "idle"
    /\ Len(run_log) < MaxRuns
    /\ run_log' = Logged(<<>>, "ValueError: No data", <<>>)
    /\ UNCHANGED <<portfolio, strategy, pc, prices, trades, bar, call, prev, ncalls>>

\* run, line 122
run_generate_signals ==
    /\ pc = "signals"
    /\ trades' = generate_signals(prices, short_window, long_window)
    /\ bar' = 0
    /\ pc' = "loop"
    /\ UNCHANGED <<portfolio, strategy, prices, run_log, call, prev, ncalls>>

\* run, line 122, with a Strategy behind the abstract interface that drops
\* rows of the crossover's series: it carries signals for some of the frame's
\* timestamps only.
run_generate_signals_sparse ==
    /\ pc = "signals"
    /\ \E full \in {generate_signals(prices, short_window, long_window)} :
          \E stamps \in SUBSET (1..Len(prices)) :
              trades' = [t \in stamps |-> full[t]]
    /\ bar' = 0
    /\ pc' = "loop"
    /\ UNCHANGED <<portfolio, strategy, prices, run_log, call, prev, ncalls>>

\* Variant of the loop that skips a bar whose update raised and goes on.
run_step_skips_failed_bar ==
    /\ pc = "loop"
    /\ bar < Len(prices)
    /\ update(prices[bar + 1], trades_get(trades, Index(prices)[bar + 1]))
    /\ bar' = bar + 1
    /\ UNCHANGED <<pc, run_log>>
    /\ UNCHANGED <<strategy, prices, trades>>

\* Variant of the loop that answers a raising update with the curve recorded
\* so far.
run_step_returns_partial_curve ==
    /\ pc = "loop"
    /\ bar < Len(prices)
    /\ update(prices[bar + 1], trades_get(trades, Index(prices)[bar + 1]))
    /\ bar' = bar + 1
    /\ IF call'.outcome = "returned"
       THEN UNCHANGED <<pc, run_log>>
       ELSE /\ pc' = "idle"
            /\ run_log' = Logged(prices, "returned",
                                 Series(history, EquityIndex(prices, history)))
    /\ UNCHANGED <<strategy, prices, trades>>

\* run, lines 123-125: one iteration of the loop; an exception raised by
\* update ends the run.
run_step ==
    /\ pc = "loop"
    /\ bar < Len(prices)
    /\ update(prices[bar + 1], trades_get(trades, Index(prices)[bar + 1]))
    /\ bar' = bar + 1
    /\ IF call'.outcome = "returned"
       THEN UNCHANGED <<pc, run_log>>
       ELSE /\ pc' = "idle"
            /\ run_log' = Logged(prices, call'.outcome, <<>>)
    /\ UNCHANGED <<strategy, prices, trades>>

\* run, lines 126-127: build and return the equity frame.
run_return ==
    /\ pc = "loop"
    /\ bar = Len(prices)
    /\ LET index == EquityIndex(prices, history)
       IN  run_log' = IF SeriesFits(history, index)
                      THEN Logged(prices, "returned", Series(history, index))
                      ELSE Logged(prices, "ValueError: Length of values", <<>>)
    /\ pc' = "idle"
    /\ UNCHANGED <<portfolio, strategy, prices, trades, bar, call, prev, ncalls>>

\* The Portfolio under arbitrary direct calls (the strategy plays no part).
InitPortfolio == Init /\ short_window = 1 /\ long_window = 2

Next == CallUpdate

Spec == InitPortfolio /\ [][Next]_vars

\* The Backtester driving the Portfolio it was constructed with, a fresh
\* one holding positive cash.
NextRun ==
    \/ run_fetch
    \/ run_fetch_empty
    \/ run_generate_signals
    \/ run_step
    \/ run_return

InitRun == Init /\ FGt(initial_cash, Zero)

SpecRun == InitRun /\ [][NextRun]_vars

\* The Backtester driving a Strategy whose series may lack timestamps.
NextSparse ==
    \/ run_fetch
    \/ run_fetch_empty
    \/ run_generate_signals_sparse
    \/ run_step
    \/ run_return

InitSparse == Init /\ initial_cash = Fin(One) /\ short_window = 1 /\ long_window = 2

SpecSparse == InitSparse /\ [][NextSparse]_vars

\* ------------------------------------------------------------- claims
\* What a transition that is one update call looks like.
Called == ncalls' = ncalls + 1
Returned == Called /\ call'.outcome = "returned"
Raised == Called /\ call'.outcome # "returned"
NonPositive(price) == FEq(price, Zero) \/ FGt(Zero, price)
Positive(a) == IsFin(a) /\ a.v > 0
Last(seq) == seq[Len(seq)]
\* A finite value in the normal range of the format.
Normal(a) == IsFin(a) /\ Abs(a.v) >= Pow2(Precision - 1)

\* C1: after every update call, position == 0 or cash == 0; cash and units
\* are never both positive at once.
C1_Exclusivity ==
    call.outcome # "none" =>
        /\ FEq(position, Zero) \/ FEq(cash, Zero)
        /\ ~(FGt(cash, Zero) /\ FGt(position, Zero))

\* C1 witness: an entry at a positive price has converted positive cash into
\* positive units.
C1_Witness ==
    /\ call.outcome = "returned" /\ call.trade_signal = 1 /\ Positive(call.price)
    /\ Positive(initial_cash) /\ Positive(position) /\ FEq(cash, Zero)
    /\ ncalls = 1

\* C2: every update call that returns follows the three branches in order:
\* Enter while flat buys cash / price units and zeroes the cash; otherwise
\* Exit while long sells for units * price and zeroes the units; otherwise
\* cash and units are unchanged.  The only call that does not return is an
\* Enter while flat at price 0, whose quotient does not exist; it changes
\* nothing.
C2_ThreeBranches ==
    [][Called =>
        LET price == call'.price
            event == call'.trade_signal
        IN  IF call'.outcome # "returned"
            THEN /\ event = 1 /\ FEq(position, Zero) /\ FEq(price, Zero)
                 /\ cash' = cash /\ position' = position
            ELSE IF event = 1 /\ FEq(position, Zero)
            THEN position' = Div(cash, price) /\ cash' = Zero
            ELSE IF event = -1 /\ FGt(position, Zero)
            THEN cash' = Mul(position, price) /\ position' = Zero
            ELSE cash' = cash /\ position' = position]_vars

\* C2 witness: an exit at a positive price has liquidated the units bought
\* by the entry before it, for an amount other than the starting cash.
C2_Witness ==
    /\ ncalls = 2 /\ Positive(initial_cash)
    /\ prev.outcome = "returned" /\ prev.trade_signal = 1 /\ Positive(prev.price)
    /\ call.outcome = "returned" /\ call.trade_signal = -1 /\ Positive(call.price)
    /\ Positive(cash) /\ FEq(position, Zero) /\ cash # initial_cash

\* C3 (as claimed): from initial_cash > 0, every reachable state is either
\* all cash (cash > 0, units = 0) or all units (cash = 0, units > 0).
C3_AllInAllOut ==
    FGt(initial_cash, Zero) =>
        \/ FGt(cash, Zero) /\ FEq(position, Zero)
        \/ FEq(cash, Zero) /\ FGt(position, Zero)

\* C4 (as claimed), on a portfolio constructed with positive cash: an
\* update call with price <= 0 fails and leaves cash, units and the equity
\* history as they were.
C4_InvalidPriceRejected ==
    [][(Called /\ NonPositive(call'.price) /\ FGt(initial_cash, Zero)) =>
        /\ call'.outcome # "returned"
        /\ UNCHANGED <<cash, position, history>>]_vars

\* C5: an update with Hold, with Enter while units > 0, or with Exit while
\* units = 0 leaves cash and units unchanged; units held (> 0) keep their
\* value on every step that is not an Exit.
C5_NoOpFrame ==
    [][Called =>
        LET event == call'.trade_signal
        IN  /\ ( \/ event = 0
                 \/ event = 1 /\ FGt(position, Zero)
                 \/ event = -1 /\ FEq(position, Zero) )
               => (cash' = cash /\ position' = position)
            /\ (FGt(position, Zero) /\ event # -1) => position' = position]_vars

\* C5 witness: units bought by an entry are still held after a Hold at
\* another positive price, which recorded another value.
C5_Witness ==
    /\ ncalls = 2 /\ Positive(initial_cash)
    /\ prev.outcome = "returned" /\ prev.trade_signal = 1 /\ Positive(prev.price)
    /\ call.outcome = "returned" /\ call.trade_signal = 0 /\ Positive(call.price)
    /\ call.price # prev.price
    /\ Positive(position) /\ FEq(cash, Zero)
    /\ history[2] # history[1]

\* C6: a second update with the same Enter event and the same price, right
\* after one that returned, leaves cash and units as the first call left them.
C6_EnterIdempotent ==
    [][( /\ call.outcome = "returned" /\ call.trade_signal = 1
         /\ Called /\ call'.trade_signal = 1 /\ call'.price = call.price )
        => (cash' = cash /\ position' = position)]_vars

\* C6 witness: two Enter calls in a row at the same positive price, the first
\* of which bought the units that are held.
C6_Witness ==
    /\ ncalls = 2 /\ Positive(initial_cash)
    /\ prev.outcome = "returned" /\ prev.trade_signal = 1 /\ Positive(prev.price)
    /\ call = prev
    /\ position = Div(initial_cash, call.price) /\ Positive(position)
    /\ FEq(cash, Zero)

\* C7: every update call that returns appends exactly one value to the
\* history, cash + units * price on the state after the transition; a call
\* raises only for price 0 and then appends nothing; the history is
\* append-only.
C7_MarkToMarket ==
    [][/\ Returned =>
            history' = Append(history, Add(cash', Mul(position', call'.price)))
       /\ Raised => (history' = history /\ FEq(call'.price, Zero))
       /\ Len(history') >= Len(history)
       /\ SubSeq(history', 1, Len(history)) = history]_vars

\* C7 witness: Hold, Enter, Exit at positive prices recorded three values:
\* the starting cash, the marked units and the larger liquidation proceeds.
C7_Witness ==
    /\ ncalls = 3 /\ Len(history) = 3 /\ Positive(initial_cash)
    /\ prev.outcome = "returned" /\ prev.trade_signal = 1 /\ Positive(prev.price)
    /\ call.outcome = "returned" /\ call.trade_signal = -1 /\ Positive(call.price)
    /\ history[1] = initial_cash
    /\ history[2] = Mul(Div(initial_cash, prev.price), prev.price)
    /\ history[3] = cash /\ Positive(cash) /\ FGt(cash, history[2])

\* C8 (as claimed), for positive cash and price and units bought in the
\* normal range: the value recorded by a step that takes the Enter
\* transition equals the cash held before the step, and the value recorded
\* by a step that takes the Exit transition equals units-before * price.
C8_ValueConserved ==
    [][(Returned /\ Positive(call'.price)) =>
        LET price == call'.price
            event == call'.trade_signal
            total == Last(history')
        IN  /\ (event = 1 /\ FEq(position, Zero) /\ Positive(cash) /\ Normal(position'))
                => FEq(total, cash)
            /\ (event = -1 /\ FGt(position, Zero))
                => FEq(total, Mul(position, price))]_vars

\* C8 (amended): an Exit step records exactly units-before * price; an Enter
\* step records exactly units-after * price, where units-after is the rounded
\* quotient cash-before / price; for positive cash and price that value
\* differs from cash-before by at most the two roundings (relative error
\* 2u + u^2, u = 2^-Precision) when quotient and product are normal numbers.
C8_ValueConservedUpToRounding ==
    [][Returned =>
        LET price == call'.price
            event == call'.trade_signal
            total == Last(history')
        IN  /\ (event = -1 /\ FGt(position, Zero)) => total = Mul(position, price)
            /\ (event = 1 /\ FEq(position, Zero)) =>
                 /\ total = Mul(Div(cash, price), price)
                 /\ ( /\ Positive(cash) /\ Positive(price)
                      /\ Normal(position') /\ Normal(total) )
                    => Abs(total.v - cash.v) * Pow2(2 * Precision)
                         <= cash.v * (Pow2(Precision + 1) + 1)]_vars

\* C8 witness: an entry at a positive price, with normal quotient and
\* product, whose recorded value differs from the cash it spent.
C8_Witness ==
    /\ ncalls = 1 /\ call.outcome = "returned" /\ call.trade_signal = 1
    /\ Positive(call.price) /\ Positive(initial_cash)
    /\ Normal(position) /\ Normal(history[1])
    /\ history[1] # initial_cash

\* C9: whenever run returns, its equity curve has exactly one entry per bar
\* of the fetched series, in bar order, each paired with its bar's timestamp
\* and holding the value the portfolio recorded for that bar.
C9_CurveLength ==
    \A r \in 1..Len(run_log) :
        run_log[r].status = "returned" =>
            /\ Len(run_log[r].equity) = Len(run_log[r].prices)
            /\ \A k \in 1..Len(run_log[r].equity) :
                  run_log[r].equity[k] = <<Index(run_log[r].prices)[k], history[k]>>

\* C9 witness: a run over at least three bars returned its curve after the
\* loop had entered a position.
C9_Witness ==
    /\ pc = "idle" /\ Len(run_log) = 1
    /\ run_log[1].status = "returned"
    /\ Len(run_log[1].prices) >= 3 /\ Len(run_log[1].equity) = Len(run_log[1].prices)
    /\ \A k \in 1..Len(prices) : Positive(prices[k])
    /\ Positive(position)

\* Every close of the series is a positive finite number.
AllPositive(series) == \A k \in 1..Len(series) : Positive(series[k])

\* C10 (as claimed), for runs over positive closes: each run starts with
\* cash = initial_cash, no units and an empty history, and a run over the
\* same series as the returned run before it returns an equal curve.
C10_NoCarryOver ==
    (AllPositive(prices) /\ \A r \in 1..Len(run_log) : AllPositive(run_log[r].prices)) =>
        /\ pc = "signals" =>
              (cash = initial_cash /\ position = Zero /\ history = <<>>)
        /\ \A r \in 1..(Len(run_log) - 1) :
              ( /\ run_log[r].status = "returned"
                /\ run_log[r + 1].prices = run_log[r].prices )
                  => ( /\ run_log[r + 1].status = "returned"
                       /\ run_log[r + 1].equity = run_log[r].equity )

\* C11: when the update for a bar raises inside run, the run ends there with
\* that error: the loop is left (no later bar of the series is stepped), the
\* run hands back no equity curve, and update is only ever called by a
\* running loop.
C11_FailFast ==
    [][ /\ (pc = "loop" /\ Raised) =>
              /\ pc' = "idle"
              /\ Len(run_log') = Len(run_log) + 1
              /\ Last(run_log').status = call'.outcome
              /\ Last(run_log').prices = prices
              /\ Last(run_log').equity = <<>>
        /\ Called => (pc = "loop" /\ bar' = bar + 1 /\ bar' <= Len(prices)) ]_vars

\* C11 witness: the update for the third bar of a longer series raised after
\* two recorded steps; the run is over, a bar is left unstepped, no curve.
C11_Witness ==
    /\ pc = "idle" /\ Len(run_log) = 1
    /\ run_log[1].status = "ZeroDivisionError"
    /\ run_log[1].equity = <<>>
    /\ bar = 3 /\ Len(history) = 2 /\ Len(prices) > bar

\* C12 (as claimed): a Portfolio exists only with initial_cash > 0 (the
\* constructor rejects the rest), so every update call runs on a portfolio
\* whose starting cash was positive (stated for calls at a positive price).
C12_InitialCashValidated ==
    (call.outcome # "none" /\ Positive(call.price)) => FGt(initial_cash, Zero)

\* C13: a fetch that finds zero observations ends the run with the no-data
\* error on the spot: the run is over in the same step, without
\* generate_signals (trades untouched) and without an update (cash, units,
\* history, call count untouched); generate_signals is never reached with an
\* empty series.
C13_NoDataOrdering ==
    [][ /\ ( /\ Len(run_log') = Len(run_log) + 1
             /\ Last(run_log').prices = <<>> ) =>
               /\ Last(run_log').status = "ValueError: No data"
               /\ Last(run_log').equity = <<>>
               /\ pc = "idle" /\ pc' = "idle"
               /\ UNCHANGED <<cash, position, history, trades, ncalls, call>>
        /\ pc' = "signals" => prices' # <<>>
        /\ Called => prices # <<>> ]_vars

\* C13 witness: after a run that returned while holding units, a second run
\* got no data; the portfolio is as the first run left it.
C13_Witness ==
    /\ Len(run_log) = 2 /\ pc = "idle"
    /\ run_log[1].status = "returned"
    /\ run_log[2].status = "ValueError: No data"
    /\ Positive(position) /\ FEq(cash, Zero)
    /\ Len(history) = Len(run_log[1].prices) /\ ncalls = Len(history)

\* C14: the strategy's constructor raises for short_window >= long_window,
\* equality included, and then nothing exists to run: no fetch, no signal
\* series, no update ever happens; every strategy that was constructed has
\* short_window < long_window.
C14_WindowsValidated ==
    /\ pc # InvalidWindows => short_window < long_window
    /\ short_window >= long_window =>
          /\ pc = InvalidWindows
          /\ prices = <<>> /\ trades = <<>> /\ run_log = <<>>
          /\ ncalls = 0 /\ history = <<>>

\* C14 witness: construction with equal windows raised.
C14_Witness ==
    short_window = long_window /\ pc = InvalidWindows

\* The average of the last window closes at bar t, defined from bar window on.
MovingAverage(close, window, t) ==
    Div(WindowSum(close, t - window + 1, t), Round(window * One, 1))

\* position(t) as the specification defines it: 1 iff both averages are
\* defined at bar t and the short one is strictly greater.
TargetPosition(close, short, long, t) ==
    IF /\ t >= short
       /\ t >= long
       /\ FGt(MovingAverage(close, short, t), MovingAverage(close, long, t))
    THEN 1 ELSE 0

C16_WarmUpHold ==
    pc = "loop" =>
        /\ \A t \in DOMAIN trades :
              t < long_window =>
                  /\ IsNaN(rolling_mean(prices, long_window, t))
                  /\ trades[t] = 0
        /\ Len(prices) < long_window => \A t \in DOMAIN trades : trades[t] = 0

\* C16 witness: closes rise during a warm-up of two bars (the short average
\* is defined at the second) and the Enter comes at bar long_window, the
\* first bar with a long average.
C16_Witness ==
    /\ pc = "loop"
    /\ long_window = 3 /\ Len(prices) > long_window
    /\ FGt(prices[2], prices[1])
    /\ ~IsNaN(rolling_mean(prices, short_window, 2))
    /\ trades[long_window] = 1

\* C17: a bar of the loop whose timestamp has no entry in the trade series
\* is stepped with Hold: update is called with signal 0 and returns, cash
\* and units stay as they were, the bar's value is recorded, and the loop
\* goes on to the next bar.
C17_GapIsHold ==
    [][ (Called /\ Index(prices)[bar + 1] \notin DOMAIN trades) =>
            /\ call'.trade_signal = 0
            /\ call'.price = prices[bar + 1]
            /\ call'.outcome = "returned"
            /\ cash' = cash /\ position' = position
            /\ history' = Append(history, value(cash, position, prices[bar + 1]))
            /\ bar' = bar + 1 /\ pc' = "loop"
            /\ run_log' = run_log ]_vars

\* C17 witness: the loop has just stepped a bar that the series lacks while
\* units were held, after a bar that the series carries; the value of the
\* held units at the bar's close is on the history.
C17_Witness ==
    /\ pc = "loop" /\ bar >= 2
    /\ bar \notin DOMAIN trades /\ (bar - 1) \in DOMAIN trades
    /\ call.outcome = "returned" /\ call.trade_signal = 0
    /\ Positive(position) /\ Positive(call.price)
    /\ Len(history) = bar
    /\ history[bar] = Mul(position, prices[bar])

\* The bars before t that carry an Enter or an Exit.
EventsBefore(series, t) == {s \in DOMAIN series : s < t /\ series[s] # 0}
LatestOf(stamps) == CHOOSE s \in stamps : \A u \in stamps : u <= s

FreshRun ==
    /\ pc = "loop" /\ ncalls = bar
    /\ Positive(initial_cash) /\ AllPositive(prices)

Long == FGt(position, Zero) /\ FEq(cash, Zero)
Flat == FEq(position, Zero) /\ FGt(cash, Zero)
\* Cash and units both 0.0: a quotient or product has underflowed to zero.
Drained == FEq(position, Zero) /\ FEq(cash, Zero)

\* C19 (as claimed): in such a run, after the step for bar t the portfolio
\* is long (units > 0, cash = 0) exactly when position(t) = 1 and flat
\* (units = 0, cash > 0) exactly when position(t) = 0.
C19_TracksPosition ==
    (FreshRun /\ bar >= 1) =>
        /\ Long <=> signal_position(prices, short_window, long_window, bar) = 1
        /\ Flat <=> signal_position(prices, short_window, long_window, bar) = 0

\* C19 (amended): in such a run, after the step for bar t the portfolio is
\* long when position(t) = 1 and flat when position(t) = 0, unless cash and
\* units are both 0.0; until then every Enter and Exit changes the holdings
\* (none is a no-op), and once both are 0.0 they stay 0.0; no step raises.
C19_TracksPositionUnlessDrained ==
    [][ (FreshRun /\ Called) =>
            /\ \/ Drained'
               \/ Long' /\ signal_position(prices, short_window, long_window, bar') = 1
               \/ Flat' /\ signal_position(prices, short_window, long_window, bar') = 0
            /\ (call'.trade_signal # 0 /\ ~Drained) =>
                  ~(FEq(position', position) /\ FEq(cash', cash))
            /\ Drained => Drained'
            /\ call'.outcome = "returned" ]_vars

\* C19 witness: a fresh run over positive closes has entered, held and just
\* exited with ordinary amounts; it is flat with positive cash at a bar
\* whose position is 0.
C19_Witness ==
    /\ FreshRun /\ bar >= 3
    /\ Normal(initial_cash)
    /\ trades[bar] = -1 /\ call.trade_signal = -1
    /\ Flat /\ Normal(cash)
    /\ signal_position(prices, short_window, long_window, bar) = 0

====
